---- MODULE Spec2Model ----
(***************************************************************************)
(* A model of day1/main.py: a six-component Haystack pipeline              *)
(* (fetcher -> converter -> splitter -> reranker -> prompt_builder ->      *)
(* generator) that is built, run once on a list of URLs and a query, and   *)
(* whose first reply is printed.                                           *)
(*                                                                         *)
(* Abstractions.  A URL is its index in the list of main.py:52-57.  A      *)
(* query is its index among the four query strings of main.py:59-62.  A    *)
(* text is the sequence of its sentences, a sentence being its position    *)
(* in the page.  A prompt is the sequence of the template's literal lines  *)
(* and substitutions.  What lies outside the process (the web pages, the   *)
(* rerank service, the generation service) is an input chosen with \E.     *)
(***************************************************************************)
EXTENDS Integers, Sequences, FiniteSets

VARIABLES
    environ,       \* names defined in os.environ after load_dotenv()
    urls,          \* the list `urls`
    query,         \* the string `query`
    rankerModel,   \* the relevance model behind the rerank service
    pc,            \* position of the script
    failedAt,      \* what raised, "" while nothing has
    split_length,  \* splitter.split_length
    components,    \* pipeline.add_component: the names added
    connections,   \* pipeline.connect: the (sender, receiver) edges
    data,          \* the `data` argument of pipeline.run
    started,       \* components whose run() was entered, in order
    running,       \* components inside run()
    finished,      \* components whose run() returned
    inbox,         \* the input handed to the component inside run()
    fetchedOk,     \* URLs whose fetch succeeded
    streams,       \* fetcher output
    documents,     \* converter output
    chunks,        \* splitter output
    ranked,        \* reranker output
    prompt,        \* prompt_builder output
    replies,       \* generator output
    usedQuery,     \* the query each component was run with (0: none)
    netCalls,      \* requests sent, per kind
    printed        \* what print() wrote

vars == <<environ, urls, query, rankerModel, pc, failedAt, split_length,
          components, connections, data, started, running, finished, inbox,
          fetchedOk, streams, documents, chunks, ranked, prompt, replies,
          usedQuery, netCalls, printed>>

----------------------------------------------------------------------------
(* Bounds of the model *)

MaxSentences == 21     \* sentences of the longest page
MaxSeed == 2           \* relevance models 0..MaxSeed
MaxUrls == 4           \* longest URL list given to run(urls, query)
MaxSplitLength == 11   \* largest split length given to the splitter alone

(* Constants of the program *)

SplitLength == 10      \* DocumentSplitter(split_length=10)
TopK == 10             \* CohereRanker(...): top_k is left at its default
NumQueries == 4        \* the query strings of main.py:59-62
ScriptQuery == 2       \* the one that is not commented out
GeneratorMaxRetries == 5   \* OpenAIGenerator(...): max_retries is left at its default

ScriptUrls == <<1, 2, 3, 4>>

EnvNames == {"COHERE_API_KEY", "GROQ_API_KEY"}

Range(s) == {s[i] : i \in 1..Len(s)}

Min(a, b) == IF a < b THEN a ELSE b

CeilDiv(a, b) == (a + b - 1) \div b

----------------------------------------------------------------------------
(* Construction of the components *)

\* Variant: os.environ.get("COHERE_API_KEY"), which never raises.
CohereKeyDefaulted == TRUE

\* os.environ["COHERE_API_KEY"]: a KeyError when the name is not defined.
CohereKeyPresent == "COHERE_API_KEY" \in environ

\* Secret.from_env_var("GROQ_API_KEY"), resolved when OpenAIGenerator builds
\* its client: an error when the name is not defined.
GroqKeyPresent == "GROQ_API_KEY" \in environ

ComponentNames ==
    {"fetcher", "converter", "splitter", "reranker", "prompt_builder", "generator"}

\* Variant: the reranker connected to the converter instead of the splitter.
ConnectionsMiswired ==
    { <<"fetcher", "converter">>,
      <<"converter", "splitter">>,
      <<"converter", "reranker">>,
      <<"reranker", "prompt_builder">>,
      <<"prompt_builder", "generator">> }

Connections ==
    { <<"fetcher", "converter">>,
      <<"converter", "splitter">>,
      <<"splitter", "reranker">>,
      <<"reranker", "prompt_builder">>,
      <<"prompt_builder", "generator">> }

\* Variant: the prompt builder given the query of main.py:59.
RunDataOtherQuery ==
    [fetcher_urls |-> urls, prompt_builder_query |-> 1, reranker_query |-> query]

RunData ==
    [fetcher_urls |-> urls, prompt_builder_query |-> query, reranker_query |-> query]

NoData == [fetcher_urls |-> <<>>, prompt_builder_query |-> 0, reranker_query |-> 0]

NoCalls == [fetch |-> 0, rerank |-> 0, generate |-> 0]

NoQuery == [reranker |-> 0, prompt_builder |-> 0]

InitRest ==
    /\ pc = "main"
    /\ failedAt = ""
    /\ split_length = 0
    /\ components = {}
    /\ connections = {}
    /\ data = NoData
    /\ started = <<>>
    /\ running = {}
    /\ finished = {}
    /\ inbox = <<>>
    /\ fetchedOk = {}
    /\ streams = <<>>
    /\ documents = <<>>
    /\ chunks = <<>>
    /\ ranked = <<>>
    /\ prompt = <<>>
    /\ replies = <<>>
    /\ usedQuery = NoQuery
    /\ netCalls = NoCalls
    /\ printed = <<>>

\* The script as written: its own URL list and query.
Init ==
    /\ environ \in SUBSET EnvNames
    /\ urls = ScriptUrls
    /\ query = ScriptQuery
    /\ rankerModel \in 0..MaxSeed
    /\ InitRest

----------------------------------------------------------------------------
(* What the components compute *)

Sentences(n) == [i \in 1..n |-> i]

\* What fetching one URL can give: no response, a page that is not HTML the
\* converter can read, or a page of some number of sentences.
PageSizes == {0, 1, MaxSentences}

PageOutcomes ==
    { [ok |-> FALSE, parsable |-> FALSE, sentences |-> 0],
      [ok |-> TRUE, parsable |-> FALSE, sentences |-> 0] }
    \cup { [ok |-> TRUE, parsable |-> TRUE, sentences |-> s] : s \in PageSizes }

\* LinkContentFetcher.run: one stream per URL that was fetched, in the order
\* of the URLs, each carrying its URL as metadata.
FetchStreams(us, oc) ==
    LET idx == SelectSeq([i \in 1..Len(us) |-> i], LAMBDA i : oc[i].ok)
    IN  [k \in 1..Len(idx) |->
            [url |-> us[idx[k]],
             parsable |-> oc[idx[k]].parsable,
             text |-> Sentences(oc[idx[k]].sentences)]]

\* LinkContentFetcher(): raise_on_failure keeps its default, under which the
\* failure of the only URL of a one-URL list is raised and the failures of a
\* longer list are logged.
FetchRaises(us, oc) == Len(us) = 1 /\ ~oc[1].ok

\* HTMLToDocument.run: one Document per source it can convert, the source's
\* metadata kept; a source it cannot convert is skipped.
Convert(sources) ==
    LET good == SelectSeq(sources, LAMBDA s : s.parsable)
    IN  [k \in 1..Len(good) |-> [id |-> k, content |-> good[k].text, url |-> good[k].url]]

\* Variant: a trailing window shorter than `len` is dropped.
RECURSIVE WindowsFullOnly(_, _)
WindowsFullOnly(content, len) ==
    IF Len(content) < len
    THEN <<>>
    ELSE <<SubSeq(content, 1, len)>>
            \o WindowsFullOnly(SubSeq(content, len + 1, Len(content)), len)

\* DocumentSplitter: consecutive windows of `len` sentences, the last one
\* possibly shorter.
RECURSIVE Windows(_, _)
Windows(content, len) ==
    IF content = <<>>
    THEN <<>>
    ELSE <<SubSeq(content, 1, Min(len, Len(content)))>>
            \o Windows(SubSeq(content, len + 1, Len(content)), len)

\* Variant: the chunks do not copy the Document's metadata.
SplitOneNoMeta(doc, len) ==
    LET w == Windows(doc.content, len)
    IN  [k \in 1..Len(w) |->
            [content |-> w[k], url |-> 0, source_id |-> doc.id, split_id |-> k - 1]]

\* The chunks of one Document: each copies the Document's metadata and adds
\* source_id and split_id.
SplitOne(doc, len) ==
    LET w == Windows(doc.content, len)
    IN  [k \in 1..Len(w) |->
            [content |-> w[k], url |-> doc.url, source_id |-> doc.id, split_id |-> k - 1]]

\* DocumentSplitter.run: the chunks of every Document, in order.
RECURSIVE Split(_, _)
Split(docs, len) ==
    IF docs = <<>>
    THEN <<>>
    ELSE SplitOne(Head(docs), len) \o Split(Tail(docs), len)

\* The relevance the rerank service gives a chunk for a query: a function of
\* the model, the query and the chunk.
Relevance(m, q, c) ==
    ((m + 1) * c.url + (2 * m + 1) * c.split_id + q * Len(c.content)) % 5

Scored(c, s) ==
    [content |-> c.content, url |-> c.url, source_id |-> c.source_id,
     split_id |-> c.split_id, score |-> s]

Unscored(c) ==
    [content |-> c.content, url |-> c.url, source_id |-> c.source_id,
     split_id |-> c.split_id]

\* Variant: the first top_k documents in input order, scored but not sorted.
RerankFirstK(docs, q, topk, m) ==
    [k \in 1..Min(topk, Len(docs)) |-> Scored(docs[k], Relevance(m, q, docs[k]))]

\* CohereRanker.run: the service returns the top_n = top_k most relevant
\* documents by index, most relevant first; the ranker returns those
\* documents with their scores set.
Rerank(docs, q, topk, m) ==
    LET n == Len(docs)
        score == [i \in 1..n |-> Relevance(m, q, docs[i])]
        Before(i, j) == score[i] > score[j] \/ (score[i] = score[j] /\ i < j)
        pos == [i \in 1..n |-> 1 + Cardinality({j \in 1..n : Before(j, i)})]
        at == [k \in 1..n |-> CHOOSE i \in 1..n : pos[i] = k]
    IN  [k \in 1..Min(topk, n) |-> Scored(docs[at[k]], score[at[k]])]

\* The template of main.py:21-29, line by line.
Literal(l) == [kind |-> "literal", line |-> l, text |-> <<>>, n |-> 0]
ContentOf(d) == [kind |-> "content", line |-> 24, text |-> d.content, n |-> 0]
UrlOf(d) == [kind |-> "url", line |-> 25, text |-> <<>>, n |-> d.url]
QueryOf(q) == [kind |-> "query", line |-> 28, text |-> <<>>, n |-> q]

\* Variant: the loop runs over the documents in reverse.
RenderReversed(docs, q) ==
    <<Literal(21), Literal(22)>>
    \o [k \in 1..(2 * Len(docs)) |->
            IF k % 2 = 1
            THEN ContentOf(docs[Len(docs) + 1 - ((k + 1) \div 2)])
            ELSE UrlOf(docs[Len(docs) + 1 - (k \div 2)])]
    \o <<QueryOf(q), Literal(29)>>

\* PromptBuilder.run: the template rendered with `documents` and `query`.
Render(docs, q) ==
    <<Literal(21), Literal(22)>>
    \o [k \in 1..(2 * Len(docs)) |->
            IF k % 2 = 1 THEN ContentOf(docs[(k + 1) \div 2]) ELSE UrlOf(docs[k \div 2])]
    \o <<QueryOf(q), Literal(29)>>

----------------------------------------------------------------------------
(* The script, step by step *)

pipelineVars == <<started, running, finished, inbox, fetchedOk, streams, documents,
                  chunks, ranked, prompt, replies, usedQuery, netCalls>>

inputVars == <<environ, urls, query, rankerModel>>

\* main.py:17-19: fetcher, converter, reranker.  The reranker's key is read
\* from os.environ here.
ConstructReranker ==
    /\ pc = "main"
    /\ pc' = IF CohereKeyPresent THEN "splitter" ELSE "failed"
    /\ failedAt' = IF CohereKeyPresent THEN failedAt ELSE "CohereRanker"
    /\ UNCHANGED <<inputVars, split_length, components, connections, data,
                   pipelineVars, printed>>

\* main.py:20-37: splitter, template, prompt_builder, generator.  The
\* generator's key is resolved here.
ConstructGenerator ==
    /\ pc = "splitter"
    /\ split_length' = SplitLength
    /\ pc' = IF GroqKeyPresent THEN "pipeline" ELSE "failed"
    /\ failedAt' = IF GroqKeyPresent THEN failedAt ELSE "OpenAIGenerator"
    /\ UNCHANGED <<inputVars, components, connections, data, pipelineVars, printed>>

\* main.py:38-50: Pipeline(), add_component x 6, connect x 5.
BuildPipeline ==
    /\ pc = "pipeline"
    /\ components' = ComponentNames
    /\ connections' = Connections
    /\ pc' = "run"
    /\ UNCHANGED <<inputVars, failedAt, split_length, data, pipelineVars, printed>>

\* main.py:64-70: pipeline.run(data=...) is entered.
CallRun ==
    /\ pc = "run"
    /\ data' = RunData
    /\ pc' = "running"
    /\ UNCHANGED <<inputVars, failedAt, split_length, components, connections,
                   pipelineVars, printed>>

Senders(c) == {s \in components : <<s, c>> \in connections}

Output(c) ==
    CASE c = "fetcher" -> streams
      [] c = "converter" -> documents
      [] c = "splitter" -> chunks
      [] c = "reranker" -> ranked
      [] c = "prompt_builder" -> prompt
      [] OTHER -> replies

\* What a component is run with: the output of the component connected to
\* it, or, for the component nothing is connected to, its entry of `data`.
InputOf(c) ==
    IF Senders(c) = {}
    THEN (IF c = "fetcher" THEN data.fetcher_urls ELSE <<>>)
    ELSE Output(CHOOSE s \in Senders(c) : TRUE)

\* Pipeline.run runs a component once every component connected to it has
\* produced its output, one component at a time.
Runnable(c) ==
    /\ c \in components
    /\ c \notin Range(started)
    /\ Senders(c) \subseteq finished
    /\ running = {}

\* Pipeline.run calls a component's run().
Begin(c) ==
    /\ pc = "running"
    /\ Runnable(c)
    /\ started' = Append(started, c)
    /\ running' = running \cup {c}
    /\ inbox' = InputOf(c)
    /\ UNCHANGED <<inputVars, pc, failedAt, split_length, components, connections,
                   data, finished, fetchedOk, streams, documents, chunks, ranked,
                   prompt, replies, usedQuery, netCalls, printed>>

\* A component's run() returns: it leaves `running` and joins `finished`.
Return(c) ==
    /\ running' = running \ {c}
    /\ finished' = finished \cup {c}
    /\ UNCHANGED <<inputVars, split_length, components, connections, data,
                   started, inbox, printed>>

\* A component's run() raises: nothing in main.py catches it.
Raise(c) ==
    /\ pc' = "failed"
    /\ failedAt' = c
    /\ running' = running \ {c}
    /\ UNCHANGED <<inputVars, split_length, components, connections, data,
                   started, finished, inbox, printed>>

\* fetcher.run(urls): one request per URL.
EndFetcher ==
    /\ pc = "running"
    /\ "fetcher" \in running
    /\ \E oc \in [1..Len(inbox) -> PageOutcomes] :
          /\ netCalls' = [netCalls EXCEPT !.fetch = @ + Len(inbox)]
          /\ IF FetchRaises(inbox, oc)
             THEN /\ Raise("fetcher")
                  /\ UNCHANGED <<fetchedOk, streams>>
             ELSE /\ Return("fetcher")
                  /\ fetchedOk' = {inbox[i] : i \in {j \in 1..Len(inbox) : oc[j].ok}}
                  /\ streams' = FetchStreams(inbox, oc)
                  /\ UNCHANGED <<pc, failedAt>>
    /\ UNCHANGED <<documents, chunks, ranked, prompt, replies, usedQuery>>

\* converter.run(sources)
EndConverter ==
    /\ pc = "running"
    /\ "converter" \in running
    /\ documents' = Convert(inbox)
    /\ Return("converter")
    /\ UNCHANGED <<pc, failedAt, fetchedOk, streams, chunks, ranked, prompt, replies,
                   usedQuery, netCalls>>

\* splitter.run(documents)
EndSplitter ==
    /\ pc = "running"
    /\ "splitter" \in running
    /\ chunks' = Split(inbox, split_length)
    /\ Return("splitter")
    /\ UNCHANGED <<pc, failedAt, fetchedOk, streams, documents, ranked, prompt, replies,
                   usedQuery, netCalls>>

\* reranker.run(query, documents): the documents are sent as they are in one
\* request to the rerank service.  The service rejects an empty list of
\* documents, and the ranker does not catch that; a request with documents
\* is answered or fails.
EndReranker ==
    /\ pc = "running"
    /\ "reranker" \in running
    /\ netCalls' = [netCalls EXCEPT !.rerank = @ + 1]
    /\ usedQuery' = [usedQuery EXCEPT !.reranker = data.reranker_query]
    /\ \E ok \in BOOLEAN :
          IF ok /\ inbox # <<>>
          THEN /\ ranked' = Rerank(inbox, data.reranker_query, TopK, rankerModel)
               /\ Return("reranker")
               /\ UNCHANGED <<pc, failedAt>>
          ELSE /\ Raise("reranker")
               /\ UNCHANGED ranked
    /\ UNCHANGED <<fetchedOk, streams, documents, chunks, prompt, replies>>

\* prompt_builder.run(documents, query)
EndPromptBuilder ==
    /\ pc = "running"
    /\ "prompt_builder" \in running
    /\ prompt' = Render(inbox, data.prompt_builder_query)
    /\ usedQuery' = [usedQuery EXCEPT !.prompt_builder = data.prompt_builder_query]
    /\ Return("prompt_builder")
    /\ UNCHANGED <<pc, failedAt, fetchedOk, streams, documents, chunks, ranked, replies,
                   netCalls>>

\* generator.run(prompt): the generator's client sends the request to the
\* generation service and, max_retries being left at its default, sends it
\* again after a failure it takes for transient (no connection, a timeout,
\* a rate limit, a server error); the last request sent is answered with
\* one candidate or fails.  pipeline.run returns after it.
EndGenerator ==
    /\ pc = "running"
    /\ "generator" \in running
    /\ \E sent \in 1..(1 + GeneratorMaxRetries), ok \in BOOLEAN :
          /\ netCalls' = [netCalls EXCEPT !.generate = @ + sent]
          /\ IF ok
             THEN /\ replies' = <<1>>
                  /\ Return("generator")
                  /\ pc' = "returned"
                  /\ UNCHANGED failedAt
             ELSE /\ Raise("generator")
                  /\ UNCHANGED replies
    /\ UNCHANGED <<fetchedOk, streams, documents, chunks, ranked, prompt, usedQuery>>

\* main.py:71: print(result["generator"]["replies"][0])
PrintReply ==
    /\ pc = "returned"
    /\ printed' = Append(printed, replies[1])
    /\ pc' = "done"
    /\ UNCHANGED <<inputVars, failedAt, split_length, components, connections, data,
                   pipelineVars>>

Next ==
    \/ ConstructReranker
    \/ ConstructGenerator
    \/ BuildPipeline
    \/ CallRun
    \/ \E c \in ComponentNames : Begin(c)
    \/ EndFetcher
    \/ EndConverter
    \/ EndSplitter
    \/ EndReranker
    \/ EndPromptBuilder
    \/ EndGenerator
    \/ PrintReply

Spec == Init /\ [][Next]_vars

----------------------------------------------------------------------------
(* The contract run(urls, query): any URL list, any of the queries *)

UrlLists == {[i \in 1..n |-> i] : n \in 0..MaxUrls}

InitRun ==
    /\ environ \in SUBSET EnvNames
    /\ urls \in UrlLists
    /\ query \in 1..NumQueries
    /\ rankerModel = 0
    /\ InitRest

SpecRun == InitRun /\ [][Next]_vars

----------------------------------------------------------------------------
(* The splitter alone: DocumentSplitter(split_by="sentence", split_length=L) *)
(* run on Documents of any number of sentences                             *)

Doc(i, n, u) == [id |-> i, content |-> Sentences(n), url |-> u]

InitSplit ==
    /\ environ = EnvNames
    /\ urls = ScriptUrls
    /\ query = ScriptQuery
    /\ rankerModel = 0
    /\ pc = "split"
    /\ failedAt = ""
    /\ split_length \in 1..MaxSplitLength
    /\ components = {}
    /\ connections = {}
    /\ data = NoData
    /\ started = <<>>
    /\ running = {}
    /\ finished = {}
    /\ inbox = <<>>
    /\ fetchedOk = {}
    /\ streams = <<>>
    /\ \E n \in 0..MaxSentences, m \in {0, MaxSentences} :
          documents = <<Doc(1, n, 1), Doc(2, m, 2)>>
    /\ chunks = <<>>
    /\ ranked = <<>>
    /\ prompt = <<>>
    /\ replies = <<>>
    /\ usedQuery = NoQuery
    /\ netCalls = NoCalls
    /\ printed = <<>>

\* splitter.run(documents)
SplitterAlone ==
    /\ pc = "split"
    /\ chunks' = Split(documents, split_length)
    /\ pc' = "split_done"
    /\ UNCHANGED <<inputVars, failedAt, split_length, components, connections, data,
                   started, running, finished, inbox, fetchedOk, streams, documents,
                   ranked, prompt, replies, usedQuery, netCalls, printed>>

NextSplit == SplitterAlone

SpecSplit == InitSplit /\ [][NextSplit]_vars

----------------------------------------------------------------------------
(* Properties *)

PipelineOrder ==
    <<"fetcher", "converter", "splitter", "reranker", "prompt_builder", "generator">>

Last(s) == s[Len(s)]

UrlsIn(s) == {s[i].url : i \in 1..Len(s)}

ContextTokens(p) == SelectSeq(p, LAMBDA t : t.kind \in {"content", "url"})

\* Between components: nothing is inside run() and some component can be run.
CanProceed == (pc = "running" /\ running = {}) => \E c \in components : Runnable(c)

\* C1: the components are run in the order fetcher, converter, splitter,
\* reranker, prompt_builder, generator, each at most once; at most one is
\* inside run() at a time, and it is the one started last; every component
\* started before it has returned; and what a component is handed is the
\* output of the component before it (the URL list for the fetcher).
C1_StagesInOrder ==
    /\ Len(started) <= Len(PipelineOrder)
    /\ \A i \in 1..Len(started) : started[i] = PipelineOrder[i]
    /\ Cardinality(running) <= 1
    /\ finished \subseteq Range(started)
    /\ \A c \in running : started # <<>> /\ c = Last(started)
    /\ \A i \in 1..(Len(started) - 1) : started[i] \in finished
    /\ Len(started) = 1 => inbox = urls
    /\ Len(started) >= 2 => inbox = Output(started[Len(started) - 1])

C1_Witness ==
    /\ pc = "done"
    /\ started = PipelineOrder
    /\ finished = ComponentNames
    /\ Len(ranked) >= 2

\* C2: while a credential is missing from the environment no request is
\* sent (no fetch, no rerank request, no generation request), no component
\* is run, and the script is either still constructing its components or
\* has failed.
C2_NoCallWithoutCredential ==
    (environ # EnvNames) =>
        /\ netCalls = NoCalls
        /\ started = <<>>
        /\ pc \in {"main", "splitter", "failed"}
        /\ printed = <<>>

C2_Witness ==
    /\ "GROQ_API_KEY" \notin environ
    /\ "COHERE_API_KEY" \in environ
    /\ pc = "failed"
    /\ failedAt = "OpenAIGenerator"

\* C3: with the script's URL list, whatever subset of the fetches fails,
\* all of them included, the fetcher does not raise; it returns one stream
\* for each URL that was fetched, in the order of the list, and no other;
\* every later stage works on content of those URLs only; the run goes on to
\* the next component; and the reranker does not end the run for having been
\* left nothing to rank.
C3_FetchFailureNotFatal ==
    /\ failedAt # "fetcher"
    /\ "fetcher" \in finished =>
          /\ [i \in 1..Len(streams) |-> streams[i].url]
                = SelectSeq(urls, LAMBDA u : u \in fetchedOk)
          /\ UrlsIn(documents) \subseteq fetchedOk
          /\ UrlsIn(chunks) \subseteq fetchedOk
          /\ UrlsIn(ranked) \subseteq fetchedOk
          /\ \A i \in 1..Len(prompt) : prompt[i].kind = "url" => prompt[i].n \in fetchedOk
    /\ CanProceed
    /\ (failedAt = "reranker" /\ fetchedOk = {}) => chunks # <<>>

\* C4: the generation service is sent at most one request per run; when a
\* request to it fails the script has failed, the generator has produced no
\* reply and nothing was printed; and whatever was printed was printed by a
\* run in which no request to the generation service failed.
C4_GeneratorFailureFatal ==
    /\ netCalls.generate <= 1
    /\ failedAt = "generator" =>
          /\ pc = "failed"
          /\ running = {}
          /\ replies = <<>>
          /\ printed = <<>>
    /\ printed # <<>> => failedAt = ""
    /\ Len(printed) <= 1

IsSorted(r) == \A k \in 1..(Len(r) - 1) : r[k].score >= r[k + 1].score

\* The chunks of c that r leaves out score no higher than the last of r.
DroppedScoreLower(r, c) ==
    \A i \in 1..Len(c) :
        (\A k \in 1..Len(r) : Unscored(r[k]) # c[i])
            => r # <<>> /\ Relevance(rankerModel, query, c[i]) <= Last(r).score

\* C6 as stated: the reranker's output is a permutation of its input,
\* whatever the input's size, ordered by non-increasing score.
C6_PermutationOfInput ==
    "reranker" \in finished =>
        /\ Len(ranked) = Len(chunks)
        /\ \A i \in 1..Len(chunks) : \E k \in 1..Len(ranked) : Unscored(ranked[k]) = chunks[i]
        /\ IsSorted(ranked)

\* C6 amended: the reranker returns min(n, 10) of its n input chunks: each
\* returned chunk is an input chunk, none is returned twice, they are ordered
\* by non-increasing score, each carries the score the service gave it, and
\* a chunk that is left out scores no higher than any that is returned.
C6_TopKOfInput ==
    "reranker" \in finished =>
        /\ Len(ranked) = Min(Len(chunks), TopK)
        /\ \A k \in 1..Len(ranked) :
              /\ \E i \in 1..Len(chunks) : Unscored(ranked[k]) = chunks[i]
              /\ \A j \in 1..Len(ranked) : j # k => Unscored(ranked[j]) # Unscored(ranked[k])
              /\ ranked[k].score = Relevance(rankerModel, query, Unscored(ranked[k]))
        /\ IsSorted(ranked)
        /\ DroppedScoreLower(ranked, chunks)

C6_Witness ==
    /\ "reranker" \in finished
    /\ Len(chunks) > TopK
    /\ Len(ranked) = TopK
    /\ ranked[1].score > Last(ranked).score

ChunksOf(d) == SelectSeq(chunks, LAMBDA c : c.source_id = d.id)

RECURSIVE ConcatContents(_)
ConcatContents(cs) ==
    IF cs = <<>> THEN <<>> ELSE Head(cs).content \o ConcatContents(Tail(cs))

\* C7: for a Document of S sentences and split length L the splitter
\* produces ceil(S / L) chunks, every chunk but the last holds L sentences,
\* the last holds between 1 and L, and the chunks' contents concatenated in
\* output order are the Document's sentences.
C7_SplitterChunks ==
    pc = "split_done" =>
        \A i \in 1..Len(documents) :
            LET d == documents[i]
                cs == ChunksOf(d)
            IN  /\ Len(cs) = CeilDiv(Len(d.content), split_length)
                /\ \A k \in 1..(Len(cs) - 1) : Len(cs[k].content) = split_length
                /\ cs # <<>> => Len(Last(cs).content) \in 1..split_length
                /\ ConcatContents(cs) = d.content

C7_Witness ==
    /\ pc = "split_done"
    /\ split_length = SplitLength
    /\ Len(documents[1].content) = 2 * SplitLength + 1
    /\ Len(ChunksOf(documents[1])) = 3
    /\ Len(ChunksOf(documents[2])) = 0

\* The chunk was cut from the Document its source_id names: it has that
\* Document's url and its content is a window of that Document's content.
CutFromParent(c) ==
    /\ c.source_id \in 1..Len(documents)
    /\ c.url = documents[c.source_id].url
    /\ c.content = SubSeq(documents[c.source_id].content,
                          c.split_id * split_length + 1,
                          c.split_id * split_length + Len(c.content))

\* C8: every chunk the splitter produces, every chunk the reranker returns
\* and every chunk handed to the prompt builder carries the url of the
\* Document it was cut from; every Document carries the url of a fetched
\* page; and every URL rendered in the prompt is the url of such a chunk and
\* one of the URLs given to the fetcher.
C8_UrlPreserved ==
    /\ \A i \in 1..Len(documents) : documents[i].url \in fetchedOk
    /\ \A i \in 1..Len(chunks) : CutFromParent(chunks[i])
    /\ \A i \in 1..Len(ranked) : CutFromParent(Unscored(ranked[i]))
    /\ "prompt_builder" \in Range(started) /\ "generator" \notin Range(started) =>
          \A i \in 1..Len(inbox) : CutFromParent(Unscored(inbox[i]))
    /\ \A i \in 1..Len(prompt) :
          prompt[i].kind = "url" =>
              /\ prompt[i].n \in Range(urls)
              /\ prompt[i].n \in UrlsIn(ranked)

C8_Witness ==
    /\ "prompt_builder" \in finished
    /\ Cardinality(UrlsIn(ranked)) >= 2
    /\ Len(ranked) < Len(chunks)
    /\ ranked[1].url # chunks[1].url

\* C9: the prompt builder is run at most once; the prompt it produces holds,
\* for the k-th chunk of the reranker's output, that chunk's content followed
\* by its URL, in the reranker's order and nothing else in the context
\* block; and it holds the query exactly once, after the context block.
C9_PromptRendering ==
    /\ Cardinality({i \in 1..Len(started) : started[i] = "prompt_builder"}) <= 1
    /\ "prompt_builder" \notin finished => prompt = <<>>
    /\ "prompt_builder" \in finished =>
          LET ctx == ContextTokens(prompt)
              qs == {i \in 1..Len(prompt) : prompt[i].kind = "query"}
          IN  /\ Len(ctx) = 2 * Len(ranked)
              /\ \A k \in 1..Len(ranked) :
                    /\ ctx[2 * k - 1].kind = "content"
                    /\ ctx[2 * k - 1].text = ranked[k].content
                    /\ ctx[2 * k].kind = "url"
                    /\ ctx[2 * k].n = ranked[k].url
              /\ Cardinality(qs) = 1
              /\ \A i \in qs :
                    /\ prompt[i].n = query
                    /\ \A j \in 1..Len(prompt) :
                          prompt[j].kind \in {"content", "url"} => j < i

C9_Witness ==
    /\ "prompt_builder" \in finished
    /\ Len(ranked) >= 3
    /\ ranked[1].url # ranked[2].url
    /\ ranked[1].content # ranked[3].content

\* C10: the URL list and the query are, in every state of the run, the ones
\* the script set; the fetcher is handed that URL list; and the reranker and
\* the prompt builder are run with that same query.
C10_QueryAndUrlsFixed ==
    /\ urls = ScriptUrls
    /\ query = ScriptQuery
    /\ pc \in {"running", "returned", "done"} =>
          /\ data.fetcher_urls = urls
          /\ data.reranker_query = data.prompt_builder_query
    /\ "reranker" \in finished => usedQuery.reranker = query
    /\ "prompt_builder" \in finished =>
          /\ usedQuery.prompt_builder = query
          /\ usedQuery.prompt_builder = usedQuery.reranker
          /\ \E i \in 1..Len(prompt) : prompt[i] = QueryOf(query)
    /\ Len(started) = 1 => inbox = ScriptUrls

C10_Witness ==
    /\ pc = "done"
    /\ printed # <<>>
    /\ usedQuery.reranker = ScriptQuery
    /\ usedQuery.prompt_builder = ScriptQuery

====
